---------------------------- MODULE Spec2Model ----------------------------
(***************************************************************************)
(* The four simulated experiment scripts of the repository as one state    *)
(* machine:                                                                *)
(*   sweep   netsquid-step2/bell_pair_loss.py         (lossy-link sweep)   *)
(*   twohop  netsquid-step3/bell_swap_two_links.py    (two-hop swap)       *)
(*   chain   netsquid-step4/nv_repeater_chain.py      (repeater chain)     *)
(*   switch  netsquid-step5/quantum_switch_control.py (quantum switch)     *)
(* Each script is a sequential loop over shots: reset the simulator, build *)
(* nodes/ports/channels, bind input handlers, generate Bell pairs and      *)
(* transmit, run the event queue, apply the "swap" gates, evaluate the     *)
(* fidelity, aggregate.  The module-level parameters of the scripts        *)
(* (shots, num_repeaters, num_clients) are drawn in Init.                  *)
(*                                                                         *)
(* Quantum states are state vectors with integer amplitudes over a common  *)
(* power of 1/sqrt(2): amplitude of basis state b is amp[b] / sqrt(2)^k.   *)
(* Qubit q of the register is bit q of the basis index.  A qubit lost in a *)
(* channel stays in the register untouched and is traced out by Fidelity.  *)
(***************************************************************************)
EXTENDS Integers, Sequences, FiniteSets, TLC

\* ------------------------------------------------------------ bounds
MaxShots == 2
MaxRepeaters == 2
MaxClients == 3
MaxDistances == 2

\* ------------------------------------------------- program constants
\* fiber_loss_db_per_km = 0.2, in tenths of a dB per km
fiber_loss_db_per_km_x10 == 2
\* FibreLossModel(p_loss_init=0.0, ...)
p_loss_init == 0
\* link_distance_km of the chain and switch scripts
link_distance_km == 20
\* distance_km of the two-hop script
distance_km == 50
\* distances_km = np.linspace(0, 100, 11)
linspace_stop == 100
linspace_num == 11

\* Python's None where a qubit is expected; a qubit is [trial, idx]
None == [trial |-> -1, idx |-> -1]
Frac(n, m) == [num |-> n, den |-> m]
\* nothing printed yet
NoReport == [kind |-> "none", mean |-> Frac(0, 1), rate |-> Frac(0, 1)]
Scripts == {"sweep", "twohop", "chain", "switch"}
\* no execution of the script has finished yet
NoRun == [fidelities |-> <<>>, probs |-> <<>>, rates |-> <<>>, log |-> <<>>, report |-> NoReport]

VARIABLES
    script,              \* which script runs
    shots,               \* module-level parameter `shots`
    num_repeaters,       \* module-level parameter `num_repeaters` (chain)
    num_clients,         \* module-level parameter `num_clients` (switch)
    pc,                  \* position in the script
    shot,                \* loop variable of `for shot in range(shots)`
    i,                   \* loop variable of the inner for loops
    d,                   \* index into distances_km (sweep)
    trial,               \* number of shots started so far: identity of the objects built in a shot
    ports,               \* ports that exist: <<owner, name>>, owner a node or a channel
    conn,                \* port connections made by Port.connect, both directions
    channels,            \* QuantumChannel objects of the shot, by name
    handlers,            \* input handlers bound: port -> ledger key the closure writes
    queue,               \* pending events of the simulator: qubits in flight
    received,            \* the delivery ledger `received`
    qstate,              \* joint state of the qubits created in the shot
    swapped,             \* repeaters/nodes at which the swap gates were applied in the shot
    result,              \* branch the shot's final check took: "none", "fidelity", "lost"
    successes,           \* sweep: successes of the current distance
    success_probs,       \* sweep: one entry per distance
    success_fidelities,  \* list of recorded fidelities (percent)
    entanglement_rates,  \* switch: 0/1 per shot
    report,              \* the printed summary
    shot_log,            \* per finished shot: the channels that lost their qubit in it
    run,                 \* which execution of the script this is: 1, or 2 after a restart
    first_run            \* what the first execution produced, kept across the restart

cfgVars == <<script, shots, num_repeaters, num_clients>>
topoVars == <<ports, conn, channels, handlers>>
aggVars == <<successes, success_probs, success_fidelities, entanglement_rates, report, shot_log>>
runVars == <<run, first_run>>
vars == <<cfgVars, runVars, pc, shot, i, d, trial, topoVars, queue, received, qstate,
          swapped, result, aggVars>>

\* ------------------------------------------------------- quantum state
Bit(b, q) == (b \div (2 ^ q)) % 2
Flip(b, q) == IF Bit(b, q) = 0 THEN b + 2 ^ q ELSE b - 2 ^ q

\* the empty register
EmptyState == [n |-> 0, k |-> 0, amp |-> [b \in 0..0 |-> 1]]

\* create_qubits(2) + assign_qstate([q1, q2], ketstates.b00): two new qubits
\* n and n+1 in (|00> + |11>)/sqrt(2)
CreateBellPair(s) ==
    [n |-> s.n + 2,
     k |-> s.k + 1,
     amp |-> [b \in 0..(2 ^ (s.n + 2) - 1) |->
                 IF Bit(b, s.n) = Bit(b, s.n + 1) THEN s.amp[b % (2 ^ s.n)] ELSE 0]]

\* operate(q, H); v and p are the state s and the qubit q, bound as values
ApplyH(s, q) ==
    CHOOSE r \in
        {[v EXCEPT !.k = @ + 1,
                   !.amp = [b \in DOMAIN v.amp |->
                               IF Bit(b, p) = 0 THEN v.amp[b] + v.amp[Flip(b, p)]
                                                ELSE v.amp[Flip(b, p)] - v.amp[b]]] :
            v \in {s}, p \in {q}} : TRUE

\* operate([c, t], CNOT): c is the control; v, ctl and tgt are s, c and t,
\* bound as values
ApplyCNOT(s, c, t) ==
    CHOOSE r \in
        {[v EXCEPT !.amp = [b \in DOMAIN v.amp |->
                               v.amp[IF Bit(b, ctl) = 1 THEN Flip(b, tgt) ELSE b]]] :
            v \in {s}, ctl \in {c}, tgt \in {t}} : TRUE

\* f[lo] + ... + f[hi], by halves
RECURSIVE SumRange(_, _, _)
SumRange(f, lo, hi) ==
    IF lo > hi THEN 0
    ELSE IF lo = hi THEN f[lo]
    ELSE CHOOSE t \in {SumRange(f, lo, mid) + SumRange(f, mid + 1, hi) :
                          mid \in {(lo + hi) \div 2}} : TRUE

SumUpTo(f, m) == SumRange(f, 0, m)

\* <b00| rho_ab |b00> as a fraction num/den, rho_ab the reduced state of
\* qubits a and b.  (The table of terms, the overlap and the radicand are each
\* bound by a quantifier over a one-element set, so each is computed once.)
OverlapB00(s, a, b) ==
    CHOOSE o \in
        {[num |-> SumUpTo(term, 2 ^ s.n - 1), den |-> 2 ^ (s.k + 1)] :
            term \in {[x \in DOMAIN s.amp |->
                IF Bit(x, a) = 0 /\ Bit(x, b) = 0
                THEN (s.amp[x] + s.amp[x + 2 ^ a + 2 ^ b]) * (s.amp[x] + s.amp[x + 2 ^ a + 2 ^ b])
                ELSE 0]}} : TRUE

ISqrt(x) ==
    CHOOSE r \in UNION {{y \in 0..100 : y * y <= v /\ (y + 1) * (y + 1) > v} : v \in {x}} : TRUE

\* qubitapi.fidelity([qa, qb], ketstates.b00), squared=False by default:
\* sqrt of the overlap, in percent (100 is fidelity 1.0)
Fidelity(s, qa, qb) ==
    CHOOSE f \in {ISqrt((10000 * o.num) \div o.den) : o \in {OverlapB00(s, qa.idx, qb.idx)}} : TRUE

\* ------------------------------------------------- nodes, ports, channels
NodePorts(node, names) == {<<node, p>> : p \in names}
ChannelPorts(name) == {<<name, "send">>, <<name, "recv">>}

\* QuantumChannel(name, length=..., models={"loss_model": loss_model})
NewChannel(len_m, t) ==
    [length |-> len_m, born |-> t, carried |-> 0, outcome |-> "none", item |-> None]

\* a.connect(b): both ports must exist and be unconnected
CanConnect(ps, c, a, b) == a \in ps /\ b \in ps /\ a \notin DOMAIN c /\ b \notin DOMAIN c
Connect(c, a, b) == [p \in DOMAIN c \cup {a, b} |-> IF p = a THEN b ELSE IF p = b THEN a ELSE c[p]]

\* wiring: sequence of [name, from, to]; each channel gets
\*   from.connect(chan.ports["send"]); chan.ports["recv"].connect(to)
RECURSIVE ConnectAll(_, _, _)
ConnectAll(ps, c, wiring) ==
    IF wiring = <<>> THEN [ok |-> TRUE, conn |-> c]
    ELSE LET w == Head(wiring)
             s == <<w.name, "send">>
             r == <<w.name, "recv">>
         IN  IF ~CanConnect(ps, c, w.from, s) THEN [ok |-> FALSE, conn |-> c]
             ELSE LET c1 == Connect(c, w.from, s)
                  IN  IF ~CanConnect(ps, c1, r, w.to) THEN [ok |-> FALSE, conn |-> c1]
                      ELSE \* the connections made so far and the channels left are
                           \* bound as values before the next channel is connected
                           CHOOSE b \in {ConnectAll(ps, c2, rest) :
                                            c2 \in {Connect(c1, r, w.to)},
                                            rest \in {Tail(wiring)}} : TRUE

WiringNames(wiring) == {wiring[j].name : j \in DOMAIN wiring}
WiringPorts(wiring) == UNION {ChannelPorts(nm) : nm \in WiringNames(wiring)}

\* FibreLossModel: prob_loss = 1 - (1 - p_loss_init) * 10^(-length_km * p_loss_length / 10)
\* is zero exactly when there is no initial loss and no attenuation over the length
LossPossible(len_m) == p_loss_init > 0 \/ (len_m > 0 /\ fiber_loss_db_per_km_x10 > 0)

\* port.tx_output(q): the message enters the channel connected to the port and
\* is scheduled; with no channel on the port it is dropped
TxOutput(st, port, q) ==
    IF port \in DOMAIN st.conn /\ st.conn[port][2] = "send"
    THEN [st EXCEPT !.channels[st.conn[port][1]].carried = @ + 1,
                    !.channels[st.conn[port][1]].item = q,
                    !.queue = @ \cup {[chan |-> st.conn[port][1], qubit |-> q]}]
    ELSE st

\* received.get(key)
Get(r, key) == IF key \in DOMAIN r THEN r[key] ELSE None
\* received[key] = q
Put(r, key, q) == [x \in DOMAIN r \cup {key} |-> IF x = key THEN q ELSE r[x]]

Qubit(t, idx) == [trial |-> t, idx |-> idx]

RECURSIVE SeqSum(_)
SeqSum(s) == IF s = <<>> THEN 0 ELSE Head(s) + SeqSum(Tail(s))


EmptyMap == [x \in {} |-> None]
Key(node_name, port_name) == node_name \o "_" \o port_name

\* make_handler(node_name, port_name): `if msg.items: received[key] = msg.items[0]`
\* plain handlers of the sweep and two-hop scripts: `received[key] = msg.items[0]`
MakeHandler(key) == [key |-> key, guarded |-> TRUE]
PlainHandler(key) == [key |-> key, guarded |-> FALSE]
RunHandler(h, r, items) ==
    IF h.guarded /\ items = <<>> THEN r ELSE Put(r, h.key, items[1])

\* ----------------------------------------------------------------- Init
Init ==
    /\ script \in Scripts
    /\ shots \in -1..MaxShots
    /\ num_repeaters \in (IF script = "chain" THEN -1..MaxRepeaters ELSE {0})
    /\ num_clients \in (IF script = "switch" THEN -1..MaxClients ELSE {0})
    /\ pc = IF script = "sweep" THEN "sweep_loop" ELSE "loop"
    /\ shot = 0
    /\ i = 0
    /\ d = 0
    /\ trial = 0
    /\ ports = {}
    /\ conn = EmptyMap
    /\ channels = EmptyMap
    /\ handlers = EmptyMap
    /\ queue = {}
    /\ received = EmptyMap
    /\ qstate = EmptyState
    /\ swapped = {}
    /\ result = "none"
    /\ successes = 0
    /\ success_probs = <<>>
    /\ success_fidelities = <<>>
    /\ entanglement_rates = <<>>
    /\ report = NoReport
    /\ shot_log = <<>>
    /\ run = 1
    /\ first_run = NoRun

\* ------------------------------------------------------------ simulator
\* ns.sim_reset(): the event queue is emptied.  The qubits of the previous
\* shot are garbage from here on, so the register starts empty again.
SimReset == {}

\* the channels of the shot whose qubit the loss model dropped
LostChannels == {c \in DOMAIN channels : channels[c].outcome = "lost"}

\* `for shot in range(shots): ns.sim_reset()`, the head of every script's shot loop
ShotStart ==
    /\ pc = "loop"
    /\ shot < shots
    /\ queue' = SimReset
    /\ trial' = trial + 1
    /\ qstate' = EmptyState
    /\ swapped' = {}
    /\ result' = "none"
    /\ pc' = "build"
    /\ UNCHANGED <<cfgVars, runVars, shot, i, d, topoVars, received, aggVars>>

\* sim_run returning while events are still pending (a run with a duration)
RunCompleteEarly == TRUE

\* ns.sim_run() returns when no event is left
RunComplete == queue = {}

\* one event of ns.sim_run(): the channel delivers the qubit to the port
\* connected to its recv end, whose input handler runs
EventDelivered ==
    /\ pc = "sim_run"
    /\ \E e \in queue :
        LET to == <<e.chan, "recv">> IN
        /\ queue' = queue \ {e}
        /\ channels' = [channels EXCEPT ![e.chan].outcome = "delivered"]
        /\ received' = IF to \in DOMAIN conn /\ conn[to] \in DOMAIN handlers
                       THEN RunHandler(handlers[conn[to]], received, <<e.qubit>>)
                       ELSE received
    /\ UNCHANGED <<cfgVars, runVars, pc, shot, i, d, trial, ports, conn, handlers, qstate,
                   swapped, result, aggVars>>

\* a lost qubit sent again: the channel notes the loss and the event stays pending
EventLostRetry ==
    /\ pc = "sim_run"
    /\ \E e \in queue :
        /\ LossPossible(channels[e.chan].length)
        /\ queue' = queue
        /\ channels' = [channels EXCEPT ![e.chan].outcome = "lost"]
    /\ UNCHANGED <<cfgVars, runVars, pc, shot, i, d, trial, ports, conn, handlers, received,
                   qstate, swapped, result, aggVars>>

\* one event of ns.sim_run(): the loss model drops the qubit; no message is
\* delivered and no handler runs
EventLost ==
    /\ pc = "sim_run"
    /\ \E e \in queue :
        /\ LossPossible(channels[e.chan].length)
        /\ queue' = queue \ {e}
        /\ channels' = [channels EXCEPT ![e.chan].outcome = "lost"]
    /\ UNCHANGED <<cfgVars, runVars, pc, shot, i, d, trial, ports, conn, handlers, received,
                   qstate, swapped, result, aggVars>>

SimRunEnd ==
    /\ pc = "sim_run"
    /\ RunComplete
    /\ pc' = IF script = "sweep" THEN "check" ELSE "swap"
    /\ i' = 0
    /\ UNCHANGED <<cfgVars, runVars, shot, d, trial, topoVars, queue, received, qstate,
                   swapped, result, aggVars>>

\* ---------------------------------------------------------------- chain
RName(j) == "R" \o ToString(j)

\* the last channel taken from repeaters[0] instead of repeaters[-1]
ChainWiringFirstRepeater(n) ==
    IF n > 0
    THEN <<[name |-> "chan_alice_r0", from |-> <<"Alice", "qout_right">>,
            to |-> <<"R0", "qin_left">>]>>
         \o [j \in 1..(n - 1) |->
                [name |-> "chan_r" \o ToString(j - 1) \o "_r" \o ToString(j),
                 from |-> <<RName(j - 1), "qout_right">>,
                 to |-> <<RName(j), "qin_left">>]]
         \o <<[name |-> "chan_r" \o ToString(n - 1) \o "_bob",
               from |-> <<RName(0), "qout_right">>,
               to |-> <<"Bob", "qin">>]>>
    ELSE <<[name |-> "chan_alice_bob", from |-> <<"Alice", "qout_right">>,
            to |-> <<"Bob", "qin">>]>>

ChainWiring(n) ==
    IF n > 0
    THEN <<[name |-> "chan_alice_r0", from |-> <<"Alice", "qout_right">>,
            to |-> <<"R0", "qin_left">>]>>
         \o [j \in 1..(n - 1) |->
                [name |-> "chan_r" \o ToString(j - 1) \o "_r" \o ToString(j),
                 from |-> <<RName(j - 1), "qout_right">>,
                 to |-> <<RName(j), "qin_left">>]]
         \o <<[name |-> "chan_r" \o ToString(n - 1) \o "_bob",
               from |-> <<RName(n - 1), "qout_right">>,
               to |-> <<"Bob", "qin">>]>>
    ELSE <<[name |-> "chan_alice_bob", from |-> <<"Alice", "qout_right">>,
            to |-> <<"Bob", "qin">>]>>

ChainPorts(n) ==
    NodePorts("Alice", {"qin", "qout_right"}) \cup NodePorts("Bob", {"qin"})
    \cup UNION {NodePorts(RName(j), {"qin_left", "qin_right", "qout_right"}) : j \in 0..(n - 1)}

\* handlers bound in lines 96-105
ChainHandlers(n) ==
    LET bound == {<<"Alice", "qin">>, <<"Bob", "qin">>}
                 \cup {<<RName(j), "qin_left">> : j \in 0..(n - 1)}
                 \cup {<<RName(j), "qin_right">> : j \in 0..(n - 2)}
    IN  [p \in bound |-> MakeHandler(Key(p[1], p[2]))]

ChainBuild ==
    /\ script = "chain"
    /\ pc = "build"
    /\ LET w == ChainWiring(num_repeaters)
           ps == ChainPorts(num_repeaters) \cup WiringPorts(w)
           b == ConnectAll(ps, EmptyMap, w)
       IN  /\ ports' = ps
           /\ conn' = b.conn
           /\ channels' = [nm \in WiringNames(w) |-> NewChannel(link_distance_km * 1000, trial)]
           /\ pc' = IF b.ok THEN "bind" ELSE "error"
    /\ handlers' = EmptyMap
    /\ UNCHANGED <<cfgVars, runVars, shot, i, d, trial, queue, received, qstate, swapped,
                   result, aggVars>>

\* the ledger created once, outside the shot loop: the old dict is kept
StaleLedger == received

\* received = {}: a new, empty ledger in every shot
NewLedger == EmptyMap

ChainBind ==
    /\ script = "chain"
    /\ pc = "bind"
    /\ received' = NewLedger
    /\ handlers' = ChainHandlers(num_repeaters)
    /\ pc' = "gen_alice"
    /\ UNCHANGED <<cfgVars, runVars, shot, i, d, trial, ports, conn, channels, queue, qstate,
                   swapped, result, aggVars>>

ChainGenAlice ==
    /\ script = "chain"
    /\ pc = "gen_alice"
    /\ LET q_alice == Qubit(trial, qstate.n)
           q_to_chain == Qubit(trial, qstate.n + 1)
           st == TxOutput([conn |-> conn, channels |-> channels, queue |-> queue],
                          <<"Alice", "qout_right">>, q_to_chain)
       IN  /\ qstate' = CreateBellPair(qstate)
           /\ received' = Put(received, "Alice_qin", q_alice)
           /\ channels' = st.channels
           /\ queue' = st.queue
    /\ i' = 0
    /\ pc' = "gen_rep"
    /\ UNCHANGED <<cfgVars, runVars, shot, d, trial, ports, conn, handlers, swapped, result, aggVars>>

ChainGenRepeater ==
    /\ script = "chain"
    /\ pc = "gen_rep"
    /\ i < num_repeaters - 1
    /\ LET q_local == Qubit(trial, qstate.n)
           q_forward == Qubit(trial, qstate.n + 1)
           st == TxOutput([conn |-> conn, channels |-> channels, queue |-> queue],
                          <<RName(i), "qout_right">>, q_forward)
       IN  /\ qstate' = CreateBellPair(qstate)
           /\ channels' = st.channels
           /\ queue' = st.queue
           /\ received' = Put(received, Key(RName(i), "qin_right"), q_local)
    /\ i' = i + 1
    /\ UNCHANGED <<cfgVars, runVars, pc, shot, d, trial, ports, conn, handlers, swapped, result, aggVars>>

\* the guard off by one: `if num_repeaters > 1`
ChainGenLastOffByOne ==
    /\ script = "chain"
    /\ pc = "gen_rep"
    /\ i >= num_repeaters - 1
    /\ IF num_repeaters > 1
       THEN LET q_last_rep == Qubit(trial, qstate.n)
                q_to_bob == Qubit(trial, qstate.n + 1)
                st == TxOutput([conn |-> conn, channels |-> channels, queue |-> queue],
                               <<RName(num_repeaters - 1), "qout_right">>, q_to_bob)
            IN  /\ qstate' = CreateBellPair(qstate)
                /\ channels' = st.channels
                /\ queue' = st.queue
                /\ received' = Put(received, Key(RName(num_repeaters - 1), "qin_right"), q_last_rep)
       ELSE UNCHANGED <<qstate, channels, queue, received>>
    /\ pc' = "sim_run"
    /\ UNCHANGED <<cfgVars, runVars, shot, i, d, trial, ports, conn, handlers, swapped, result, aggVars>>

ChainGenLast ==
    /\ script = "chain"
    /\ pc = "gen_rep"
    /\ i >= num_repeaters - 1
    /\ IF num_repeaters > 0
       THEN LET q_last_rep == Qubit(trial, qstate.n)
                q_to_bob == Qubit(trial, qstate.n + 1)
                st == TxOutput([conn |-> conn, channels |-> channels, queue |-> queue],
                               <<RName(num_repeaters - 1), "qout_right">>, q_to_bob)
            IN  /\ qstate' = CreateBellPair(qstate)
                /\ channels' = st.channels
                /\ queue' = st.queue
                /\ received' = Put(received, Key(RName(num_repeaters - 1), "qin_right"), q_last_rep)
       ELSE UNCHANGED <<qstate, channels, queue, received>>
    /\ pc' = "sim_run"
    /\ UNCHANGED <<cfgVars, runVars, shot, i, d, trial, ports, conn, handlers, swapped, result, aggVars>>

ChainSwap ==
    /\ script = "chain"
    /\ pc = "swap"
    /\ i < num_repeaters
    /\ LET q_left == Get(received, Key(RName(i), "qin_left"))
           q_right == Get(received, Key(RName(i), "qin_right"))
       IN  IF q_left # None /\ q_right # None
           THEN /\ qstate' = ApplyH(ApplyCNOT(qstate, q_left.idx, q_right.idx), q_right.idx)
                /\ swapped' = swapped \cup {RName(i)}
           ELSE UNCHANGED <<qstate, swapped>>
    /\ i' = i + 1
    /\ UNCHANGED <<cfgVars, runVars, pc, shot, d, trial, topoVars, queue, received, result, aggVars>>

ChainFidelity ==
    /\ script = "chain"
    /\ pc = "swap"
    /\ i >= num_repeaters
    /\ LET q_alice == Get(received, "Alice_qin")
           q_bob == Get(received, "Bob_qin")
       IN  IF q_alice # None /\ q_bob # None
           THEN /\ success_fidelities' = Append(success_fidelities, Fidelity(qstate, q_alice, q_bob))
                /\ result' = "fidelity"
           ELSE /\ result' = "lost"
                /\ UNCHANGED success_fidelities
    /\ shot_log' = Append(shot_log, LostChannels)
    /\ shot' = shot + 1
    /\ pc' = "loop"
    /\ UNCHANGED <<cfgVars, runVars, i, d, trial, topoVars, queue, received, qstate, swapped,
                   successes, success_probs, entanglement_rates, report>>

\* np.mean(success_fidelities) and len(success_fidelities)/shots, as fractions
Summary(fids, total) ==
    [kind |-> "results", mean |-> Frac(SeqSum(fids), Len(fids)), rate |-> Frac(Len(fids), total)]
\* print("No successful entanglement distributions!")
NoSuccess == [kind |-> "no_success", mean |-> Frac(0, 1), rate |-> Frac(0, 1)]

ChainReport ==
    /\ script = "chain"
    /\ pc = "loop"
    /\ shot >= shots
    /\ report' = IF success_fidelities # <<>>
                 THEN Summary(success_fidelities, shots)
                 ELSE NoSuccess
    /\ pc' = "done"
    /\ UNCHANGED <<cfgVars, runVars, shot, i, d, trial, topoVars, queue, received, qstate,
                   swapped, result, successes, success_probs, success_fidelities,
                   entanglement_rates, shot_log>>

\* --------------------------------------------------------------- twohop
\* BellSource.run: a Bell pair, one half out of each of the node's two ports
BellSourceRun(st, t, node, port1, port2) ==
    LET q1 == Qubit(t, st.qstate.n)
        q2 == Qubit(t, st.qstate.n + 1)
        s1 == TxOutput([conn |-> st.conn, channels |-> st.channels, queue |-> st.queue],
                       <<node, port1>>, q1)
        s2 == TxOutput(s1, <<node, port2>>, q2)
    IN  [conn |-> st.conn, channels |-> s2.channels, queue |-> s2.queue,
         qstate |-> CreateBellPair(st.qstate)]

SimState == [conn |-> conn, channels |-> channels, queue |-> queue, qstate |-> qstate]

TwoHopWiring ==
    <<[name |-> "chan_Alice_Middle_1", from |-> <<"Source1", "qout_1">>, to |-> <<"Alice", "qin">>],
      [name |-> "chan_Alice_Middle_2", from |-> <<"Source1", "qout_2">>, to |-> <<"Middle", "qin1">>],
      [name |-> "chan_Middle_Bob_1", from |-> <<"Source2", "qout_1">>, to |-> <<"Middle", "qin2">>],
      [name |-> "chan_Middle_Bob_2", from |-> <<"Source2", "qout_2">>, to |-> <<"Bob", "qin">>]>>

TwoHopPorts ==
    NodePorts("Alice", {"qin"}) \cup NodePorts("Middle", {"qin1", "qin2"})
    \cup NodePorts("Bob", {"qin"}) \cup NodePorts("Source1", {"qout_1", "qout_2"})
    \cup NodePorts("Source2", {"qout_1", "qout_2"})

TwoHopBuild ==
    /\ script = "twohop"
    /\ pc = "build"
    /\ LET ps == TwoHopPorts \cup WiringPorts(TwoHopWiring)
           b == ConnectAll(ps, EmptyMap, TwoHopWiring)
       IN  /\ ports' = ps
           /\ conn' = b.conn
           /\ channels' = [nm \in WiringNames(TwoHopWiring) |-> NewChannel(distance_km * 1000, trial)]
           /\ pc' = IF b.ok THEN "bind" ELSE "error"
    /\ handlers' = EmptyMap
    /\ UNCHANGED <<cfgVars, runVars, shot, i, d, trial, queue, received, qstate, swapped,
                   result, aggVars>>

\* received = {"alice": None, "middle1": None, "middle2": None, "bob": None}
TwoHopLedger == [x \in {"alice", "middle1", "middle2", "bob"} |-> None]

\* a copy-paste slip: middle2_handler writes received["middle1"]
TwoHopHandlersSlip ==
    [p \in {<<"Alice", "qin">>, <<"Middle", "qin1">>, <<"Middle", "qin2">>, <<"Bob", "qin">>} |->
        PlainHandler(IF p = <<"Alice", "qin">> THEN "alice"
                     ELSE IF p = <<"Middle", "qin1">> THEN "middle1"
                     ELSE IF p = <<"Middle", "qin2">> THEN "middle1"
                     ELSE "bob")]

\* alice_handler, middle1_handler, middle2_handler, bob_handler and their binding
TwoHopHandlers ==
    [p \in {<<"Alice", "qin">>, <<"Middle", "qin1">>, <<"Middle", "qin2">>, <<"Bob", "qin">>} |->
        PlainHandler(IF p = <<"Alice", "qin">> THEN "alice"
                     ELSE IF p = <<"Middle", "qin1">> THEN "middle1"
                     ELSE IF p = <<"Middle", "qin2">> THEN "middle2"
                     ELSE "bob")]

TwoHopBind ==
    /\ script = "twohop"
    /\ pc = "bind"
    /\ received' = TwoHopLedger
    /\ handlers' = TwoHopHandlers
    /\ pc' = "start1"
    /\ UNCHANGED <<cfgVars, runVars, shot, i, d, trial, ports, conn, channels, queue, qstate,
                   swapped, result, aggVars>>

\* BellSource(source1).start()
TwoHopStart1 ==
    /\ script = "twohop"
    /\ pc = "start1"
    /\ LET st == BellSourceRun(SimState, trial, "Source1", "qout_1", "qout_2")
       IN  /\ channels' = st.channels
           /\ queue' = st.queue
           /\ qstate' = st.qstate
    /\ pc' = "start2"
    /\ UNCHANGED <<cfgVars, runVars, shot, i, d, trial, ports, conn, handlers, received,
                   swapped, result, aggVars>>

\* BellSource(source2).start(), then ns.sim_run()
TwoHopStart2 ==
    /\ script = "twohop"
    /\ pc = "start2"
    /\ LET st == BellSourceRun(SimState, trial, "Source2", "qout_1", "qout_2")
       IN  /\ channels' = st.channels
           /\ queue' = st.queue
           /\ qstate' = st.qstate
    /\ pc' = "sim_run"
    /\ UNCHANGED <<cfgVars, runVars, shot, i, d, trial, ports, conn, handlers, received,
                   swapped, result, aggVars>>

\* H on middle1, then CNOT with control middle1 and target middle2
TwoHopGates(s, m1, m2) == ApplyCNOT(ApplyH(s, m1.idx), m1.idx, m2.idx)

\* the guard of line 98 and the gates of lines 102-105
TwoHopSwap ==
    /\ script = "twohop"
    /\ pc = "swap"
    /\ IF /\ received["alice"] # None
          /\ received["middle1"] # None
          /\ received["middle2"] # None
          /\ received["bob"] # None
       THEN /\ qstate' = TwoHopGates(qstate, received["middle1"], received["middle2"])
            /\ swapped' = swapped \cup {"Middle"}
            /\ pc' = "fidelity"
            /\ UNCHANGED <<result, shot, shot_log>>
       ELSE /\ result' = "lost"
            /\ shot' = shot + 1
            /\ shot_log' = Append(shot_log, LostChannels)
            /\ pc' = "loop"
            /\ UNCHANGED <<qstate, swapped>>
    /\ UNCHANGED <<cfgVars, runVars, i, d, trial, topoVars, queue, received, successes,
                   success_probs, success_fidelities, entanglement_rates, report>>

\* lines 108-109
TwoHopFidelity ==
    /\ script = "twohop"
    /\ pc = "fidelity"
    /\ success_fidelities' = Append(success_fidelities,
                                    Fidelity(qstate, received["alice"], received["bob"]))
    /\ result' = "fidelity"
    /\ shot' = shot + 1
    /\ shot_log' = Append(shot_log, LostChannels)
    /\ pc' = "loop"
    /\ UNCHANGED <<cfgVars, runVars, i, d, trial, topoVars, queue, received, qstate, swapped,
                   successes, success_probs, entanglement_rates, report>>

\* print(f"Average fidelity: {np.mean(success_fidelities):.4f}"); the mean of
\* an empty list is 0/0 (nan)
TwoHopReport ==
    /\ script = "twohop"
    /\ pc = "loop"
    /\ shot >= shots
    /\ report' = [kind |-> "average",
                  mean |-> Frac(SeqSum(success_fidelities), Len(success_fidelities)),
                  rate |-> Frac(0, 1)]
    /\ pc' = "done"
    /\ UNCHANGED <<cfgVars, runVars, shot, i, d, trial, topoVars, queue, received, qstate,
                   swapped, result, successes, success_probs, success_fidelities,
                   entanglement_rates, shot_log>>

\* --------------------------------------------------------------- switch
CName(j) == "C" \o ToString(j)
QinFrom(j) == "qin_from_c" \o ToString(j)
QoutTo(j) == "qout_to_c" \o ToString(j)

\* per client: chan_s2c{i} switch -> client, then chan_c{i}2s client -> switch
RECURSIVE SwitchWiringFrom(_, _)
SwitchWiringFrom(j, n) ==
    IF j >= n THEN <<>>
    ELSE <<[name |-> "chan_s2c" \o ToString(j), from |-> <<"Switch", QoutTo(j)>>,
            to |-> <<CName(j), "qin">>],
           [name |-> "chan_c" \o ToString(j) \o "2s", from |-> <<CName(j), "qout">>,
            to |-> <<"Switch", QinFrom(j)>>]>>
         \o SwitchWiringFrom(j + 1, n)

SwitchWiring(n) == SwitchWiringFrom(0, n)

SwitchPorts(n) ==
    UNION {NodePorts("Switch", {QinFrom(j), QoutTo(j)}) : j \in 0..(n - 1)}
    \cup UNION {NodePorts(CName(j), {"qin", "qout"}) : j \in 0..(n - 1)}

\* closures that read the loop variable when called: every handler writes
\* the key of the last client
SwitchHandlersLateBinding(n) ==
    LET bound == {<<"Switch", QinFrom(j)>> : j \in 0..(n - 1)}
                 \cup {<<CName(j), "qin">> : j \in 0..(n - 1)}
    IN  [p \in bound |-> MakeHandler(IF p[1] = "Switch" THEN Key("Switch", QinFrom(n - 1))
                                                         ELSE Key(CName(n - 1), "qin"))]

SwitchHandlers(n) ==
    LET bound == {<<"Switch", QinFrom(j)>> : j \in 0..(n - 1)}
                 \cup {<<CName(j), "qin">> : j \in 0..(n - 1)}
    IN  [p \in bound |-> MakeHandler(Key(p[1], p[2]))]

SwitchBuild ==
    /\ script = "switch"
    /\ pc = "build"
    /\ LET w == SwitchWiring(num_clients)
           ps == SwitchPorts(num_clients) \cup WiringPorts(w)
           b == ConnectAll(ps, EmptyMap, w)
       IN  /\ ports' = ps
           /\ conn' = b.conn
           /\ channels' = [nm \in WiringNames(w) |-> NewChannel(link_distance_km * 1000, trial)]
           /\ pc' = IF b.ok THEN "bind" ELSE "error"
    /\ handlers' = EmptyMap
    /\ UNCHANGED <<cfgVars, runVars, shot, i, d, trial, queue, received, qstate, swapped,
                   result, aggVars>>

SwitchBind ==
    /\ script = "switch"
    /\ pc = "bind"
    /\ received' = NewLedger
    /\ handlers' = SwitchHandlers(num_clients)
    /\ i' = 0
    /\ pc' = "gen"
    /\ UNCHANGED <<cfgVars, runVars, shot, d, trial, ports, conn, channels, queue, qstate,
                   swapped, result, aggVars>>

\* one round of `for i in range(num_clients)`, lines 96-104
\* the halves mixed up: the ledger entry of the switch gets the qubit that is sent
SwitchGenKeepsSent ==
    /\ script = "switch"
    /\ pc = "gen"
    /\ i < num_clients
    /\ LET q_switch == Qubit(trial, qstate.n)
           q_to_client == Qubit(trial, qstate.n + 1)
           st == TxOutput([conn |-> conn, channels |-> channels, queue |-> queue],
                          <<"Switch", QoutTo(i)>>, q_to_client)
       IN  /\ qstate' = CreateBellPair(qstate)
           /\ received' = Put(received, Key("Switch", QinFrom(i)), q_to_client)
           /\ channels' = st.channels
           /\ queue' = st.queue
    /\ i' = i + 1
    /\ UNCHANGED <<cfgVars, runVars, pc, shot, d, trial, ports, conn, handlers, swapped, result, aggVars>>

SwitchGen ==
    /\ script = "switch"
    /\ pc = "gen"
    /\ i < num_clients
    /\ LET q_switch == Qubit(trial, qstate.n)
           q_to_client == Qubit(trial, qstate.n + 1)
           st == TxOutput([conn |-> conn, channels |-> channels, queue |-> queue],
                          <<"Switch", QoutTo(i)>>, q_to_client)
       IN  /\ qstate' = CreateBellPair(qstate)
           /\ received' = Put(received, Key("Switch", QinFrom(i)), q_switch)
           /\ channels' = st.channels
           /\ queue' = st.queue
    /\ i' = i + 1
    /\ UNCHANGED <<cfgVars, runVars, pc, shot, d, trial, ports, conn, handlers, swapped, result, aggVars>>

\* the loop is over: ns.sim_run() is called
SwitchSimRun ==
    /\ script = "switch"
    /\ pc = "gen"
    /\ i >= num_clients
    /\ pc' = "sim_run"
    /\ UNCHANGED <<cfgVars, runVars, shot, i, d, trial, topoVars, queue, received, qstate,
                   swapped, result, aggVars>>

\* lines 113-119
SwitchSwap ==
    /\ script = "switch"
    /\ pc = "swap"
    /\ LET q_from_c0 == Get(received, "Switch_qin_from_c0")
           q_from_c1 == Get(received, "Switch_qin_from_c1")
       IN  IF q_from_c0 # None /\ q_from_c1 # None
           THEN /\ qstate' = ApplyH(ApplyCNOT(qstate, q_from_c0.idx, q_from_c1.idx), q_from_c1.idx)
                /\ swapped' = swapped \cup {"Switch"}
           ELSE UNCHANGED <<qstate, swapped>>
    /\ pc' = "fidelity"
    /\ UNCHANGED <<cfgVars, runVars, shot, i, d, trial, topoVars, queue, received, result, aggVars>>

\* lines 122-134
SwitchFidelity ==
    /\ script = "switch"
    /\ pc = "fidelity"
    /\ LET qC0 == Get(received, "C0_qin")
           qC1 == Get(received, "C1_qin")
       IN  IF qC0 # None /\ qC1 # None
           THEN /\ success_fidelities' = Append(success_fidelities, Fidelity(qstate, qC0, qC1))
                /\ entanglement_rates' = Append(entanglement_rates, 1)
                /\ result' = "fidelity"
           ELSE /\ entanglement_rates' = Append(entanglement_rates, 0)
                /\ result' = "lost"
                /\ UNCHANGED success_fidelities
    /\ shot_log' = Append(shot_log, LostChannels)
    /\ shot' = shot + 1
    /\ pc' = "loop"
    /\ UNCHANGED <<cfgVars, runVars, i, d, trial, topoVars, queue, received, qstate, swapped,
                   successes, success_probs, report>>

\* lines 142-171
SwitchReport ==
    /\ script = "switch"
    /\ pc = "loop"
    /\ shot >= shots
    /\ report' = IF success_fidelities # <<>>
                 THEN Summary(success_fidelities, shots)
                 ELSE NoSuccess
    /\ pc' = "done"
    /\ UNCHANGED <<cfgVars, runVars, shot, i, d, trial, topoVars, queue, received, qstate,
                   swapped, result, successes, success_probs, success_fidelities,
                   entanglement_rates, shot_log>>

\* ---------------------------------------------------------------- sweep
\* the points of distances_km = np.linspace(0, 100, 11) that are swept
NumPoints == IF MaxDistances < linspace_num THEN MaxDistances ELSE linspace_num
\* a sweep that starts one step late: np.linspace(10, 100, ...)
DistanceKmFromStep(j) == ((j + 1) * linspace_stop) \div (linspace_num - 1)

\* distances_km[j], in km
DistanceKm(j) == (j * linspace_stop) \div (linspace_num - 1)

\* `for distance in distances_km: successes = 0`
SweepDistance ==
    /\ script = "sweep"
    /\ pc = "sweep_loop"
    /\ d < NumPoints
    /\ successes' = 0
    /\ shot' = 0
    /\ pc' = "loop"
    /\ UNCHANGED <<cfgVars, runVars, i, d, trial, topoVars, queue, received, qstate, swapped,
                   result, success_probs, success_fidelities, entanglement_rates,
                   report, shot_log>>

SweepWiring ==
    <<[name |-> "chan_A", from |-> <<"Source", "qout_A">>, to |-> <<"Alice", "qin">>],
      [name |-> "chan_B", from |-> <<"Source", "qout_B">>, to |-> <<"Bob", "qin">>]>>

SweepPorts ==
    NodePorts("Source", {"qout_A", "qout_B"}) \cup NodePorts("Alice", {"qin"})
    \cup NodePorts("Bob", {"qin"})

SweepBuild ==
    /\ script = "sweep"
    /\ pc = "build"
    /\ LET ps == SweepPorts \cup WiringPorts(SweepWiring)
           b == ConnectAll(ps, EmptyMap, SweepWiring)
       IN  /\ ports' = ps
           /\ conn' = b.conn
           /\ channels' = [nm \in WiringNames(SweepWiring) |-> NewChannel(DistanceKm(d) * 1000, trial)]
           /\ pc' = IF b.ok THEN "bind" ELSE "error"
    /\ handlers' = EmptyMap
    /\ UNCHANGED <<cfgVars, runVars, shot, i, d, trial, queue, received, qstate, swapped,
                   result, aggVars>>

\* received = {"alice": None, "bob": None}
SweepLedger == [x \in {"alice", "bob"} |-> None]

SweepBind ==
    /\ script = "sweep"
    /\ pc = "bind"
    /\ received' = SweepLedger
    /\ handlers' = [p \in {<<"Alice", "qin">>, <<"Bob", "qin">>} |->
                       PlainHandler(IF p = <<"Alice", "qin">> THEN "alice" ELSE "bob")]
    /\ pc' = "start"
    /\ UNCHANGED <<cfgVars, runVars, shot, i, d, trial, ports, conn, channels, queue, qstate,
                   swapped, result, aggVars>>

\* BellSource(source).start(), then ns.sim_run()
SweepStart ==
    /\ script = "sweep"
    /\ pc = "start"
    /\ LET st == BellSourceRun(SimState, trial, "Source", "qout_A", "qout_B")
       IN  /\ channels' = st.channels
           /\ queue' = st.queue
           /\ qstate' = st.qstate
    /\ pc' = "sim_run"
    /\ UNCHANGED <<cfgVars, runVars, shot, i, d, trial, ports, conn, handlers, received,
                   swapped, result, aggVars>>

\* lines 90-91: success = both qubits arrived
SweepCheck ==
    /\ script = "sweep"
    /\ pc = "check"
    /\ IF received["alice"] # None /\ received["bob"] # None
       THEN /\ successes' = successes + 1
            /\ result' = "success"
       ELSE /\ result' = "lost"
            /\ UNCHANGED successes
    /\ shot_log' = Append(shot_log, LostChannels)
    /\ shot' = shot + 1
    /\ pc' = "loop"
    /\ UNCHANGED <<cfgVars, runVars, i, d, trial, topoVars, queue, received, qstate, swapped,
                   success_probs, success_fidelities, entanglement_rates, report>>

\* success_probs.append(successes / shots); the division raises
\* ZeroDivisionError when shots is 0
SweepAppend ==
    /\ script = "sweep"
    /\ pc = "loop"
    /\ shot >= shots
    /\ IF shots = 0
       THEN /\ pc' = "error"
            /\ UNCHANGED <<success_probs, d>>
       ELSE /\ success_probs' = Append(success_probs, Frac(successes, shots))
            /\ d' = d + 1
            /\ pc' = "sweep_loop"
    /\ UNCHANGED <<cfgVars, runVars, shot, i, trial, topoVars, queue, received, qstate, swapped,
                   result, successes, success_fidelities, entanglement_rates, report,
                   shot_log>>

\* the sweep is over: the plot is written
SweepDone ==
    /\ script = "sweep"
    /\ pc = "sweep_loop"
    /\ d >= NumPoints
    /\ pc' = "done"
    /\ UNCHANGED <<cfgVars, runVars, shot, i, d, trial, topoVars, queue, received, qstate,
                   swapped, result, aggVars>>

Next ==
    \/ ShotStart
    \/ EventDelivered
    \/ EventLost
    \/ SimRunEnd
    \/ ChainBuild
    \/ ChainBind
    \/ ChainGenAlice
    \/ ChainGenRepeater
    \/ ChainGenLast
    \/ ChainSwap
    \/ ChainFidelity
    \/ ChainReport
    \/ TwoHopBuild
    \/ TwoHopBind
    \/ TwoHopStart1
    \/ TwoHopStart2
    \/ TwoHopSwap
    \/ TwoHopFidelity
    \/ TwoHopReport
    \/ SwitchBuild
    \/ SwitchBind
    \/ SwitchGen
    \/ SwitchSimRun
    \/ SwitchSwap
    \/ SwitchFidelity
    \/ SwitchReport
    \/ SweepDistance
    \/ SweepBuild
    \/ SweepBind
    \/ SweepStart
    \/ SweepCheck
    \/ SweepAppend
    \/ SweepDone

Spec == Init /\ [][Next]_vars

\* The script is one thread of control and the simulator's event loop runs
\* inside it: the interpreter always executes the next statement, and
\* ns.sim_run() always handles the next pending event.
FairRuns == Spec /\ WF_vars(Next)

\* --------------------------------------------------- running a script twice
\* what an execution leaves behind: the lists it aggregated, the outcome of each
\* shot and the summary it printed
Aggregates ==
    [fidelities |-> success_fidelities, probs |-> success_probs,
     rates |-> entanglement_rates, log |-> shot_log, report |-> report]

\* The script is started a second time with the same parameters: every
\* module-level name is initialised again.  None of the four scripts calls
\* ns.set_random_state and ns.sim_reset() does not touch the random stream, so
\* the generator of the new process starts wherever the operating system's
\* entropy puts it: the loss draws of the second execution are as free as
\* those of the first.
Restart ==
    /\ pc = "done"
    /\ run = 1
    /\ run' = 2
    /\ first_run' = Aggregates
    /\ pc' = IF script = "sweep" THEN "sweep_loop" ELSE "loop"
    /\ shot' = 0
    /\ i' = 0
    /\ d' = 0
    /\ trial' = 0
    /\ ports' = {}
    /\ conn' = EmptyMap
    /\ channels' = EmptyMap
    /\ handlers' = EmptyMap
    /\ queue' = {}
    /\ received' = EmptyMap
    /\ qstate' = EmptyState
    /\ swapped' = {}
    /\ result' = "none"
    /\ successes' = 0
    /\ success_probs' = <<>>
    /\ success_fidelities' = <<>>
    /\ entanglement_rates' = <<>>
    /\ report' = NoReport
    /\ shot_log' = <<>>
    /\ UNCHANGED cfgVars

NextTwice ==
    \/ Next
    \/ Restart

TwoRuns == Init /\ [][NextTwice]_vars

\* ================================================================ claims
Delivered(c) == c \in DOMAIN channels /\ channels[c].outcome = "delivered"
Resolved(c) == channels[c].outcome \in {"delivered", "lost"}
Repeaters == {RName(j) : j \in 0..(num_repeaters - 1)}
Count(S) == Cardinality(S)

\* C1: in the chain script a shot records a fidelity only if every one of its
\* num_repeaters+1 link deliveries succeeded; a shot with a lost link is
\* reported lost.
C1_FidelityOnlyIfAllLinksDelivered ==
    (script = "chain" /\ result = "fidelity")
        => \A c \in DOMAIN channels : channels[c].outcome = "delivered"

\* C2: in the chain script no shot records a fidelity unless the swap gates
\* were applied at every one of the num_repeaters repeaters in that shot.
C2_FidelityOnlyIfEverySwapExecuted ==
    (script = "chain" /\ result = "fidelity") => swapped = Repeaters

\* C3: in the two-hop script a shot records a fidelity iff all four deliveries
\* succeeded; with any of them lost the swap gates are not applied and no
\* fidelity is appended.
C3_TwoHopFidelityIffAllFour ==
    script = "twohop" =>
        /\ Len(success_fidelities) = Count({j \in DOMAIN shot_log : shot_log[j] = {}})
        /\ (pc = "fidelity" \/ swapped # {} \/ result # "none") =>
              LET all == \A c \in WiringNames(TwoHopWiring) : Delivered(c)
              IN  /\ DOMAIN channels = WiringNames(TwoHopWiring)
                  /\ received["alice"] # None <=> Delivered("chan_Alice_Middle_1")
                  /\ received["middle1"] # None <=> Delivered("chan_Alice_Middle_2")
                  /\ received["middle2"] # None <=> Delivered("chan_Middle_Bob_1")
                  /\ received["bob"] # None <=> Delivered("chan_Middle_Bob_2")
                  /\ (pc = "fidelity" \/ result = "fidelity") <=> all
                  /\ swapped # {} <=> all

C3_Witness ==
    /\ script = "twohop"
    /\ Len(shot_log) = 2
    /\ shot_log[1] # {}
    /\ result = "fidelity"
    /\ swapped = {"Middle"}
    /\ success_fidelities # <<>>

\* C4: after a run of the chain or switch script, success_fidelities holds
\* exactly one entry per successful shot (a shot none of whose required legs
\* was lost), the mean is over those entries and the success rate is their
\* number over the number of shots run.
SuccessfulShot(j) ==
    IF script = "chain" THEN shot_log[j] = {}
    ELSE num_clients >= 2 /\ shot_log[j] \cap {"chan_s2c0", "chan_s2c1"} = {}

C4_LostShotsExcludedFromMean ==
    (script \in {"chain", "switch"} /\ pc = "done") =>
        LET succ == Count({j \in DOMAIN shot_log : SuccessfulShot(j)})
        IN  /\ Len(success_fidelities) = succ
            /\ Len(success_fidelities) <= Len(shot_log)
            /\ report.kind = "results" =>
                  /\ report.mean = Frac(SeqSum(success_fidelities), succ)
                  /\ report.rate = Frac(succ, Len(shot_log))

\* C5: in the sweep, at the point with link length 0 (and no initial loss)
\* every transmission is delivered, so every trial is a success and the
\* recorded success probability is shots/shots; at every point a trial is a
\* success only when both Alice's and Bob's qubits arrived.
C5_ZeroDistanceAlwaysSucceeds ==
    script = "sweep" =>
        /\ (d = 0 /\ pc # "sweep_loop") => (successes = shot /\ LostChannels = {})
        /\ (shots >= 1 /\ Len(success_probs) >= 1) => success_probs[1] = Frac(shots, shots)
        /\ result = "success" =>
              /\ Delivered("chan_A") /\ Delivered("chan_B")
              /\ received["alice"] # None /\ received["bob"] # None
        /\ result = "lost" => LostChannels # {}
        /\ successes = Count({j \in (Len(shot_log) - shot + 1)..Len(shot_log) : shot_log[j] = {}})

C5_Witness ==
    /\ script = "sweep"
    /\ shots = 2
    /\ Len(success_probs) = 2
    /\ success_probs[1] = Frac(2, 2)
    /\ success_probs[2].num < 2

\* C6 (as stated): when the simulation run of a shot has ended, every channel
\* constructed for the shot has carried exactly one qubit transmission.
C6_EveryChannelCarriesOne ==
    pc \in {"swap", "check", "fidelity"} => \A c \in DOMAIN channels : channels[c].carried = 1

\* the client-to-switch channels of the switch script: the send end is on a
\* client's qout port
ClientToSwitch(c) == script = "switch" /\ conn[<<c, "send">>][2] = "qout"

\* C6 (amended): no channel carries more than one transmission in a shot, and
\* when the run of a shot has ended every channel has carried exactly one and
\* it is resolved, except the client-to-switch channels of the switch script,
\* which carry none; the chain has one channel per link.
C6_UsedChannelsCarryOne ==
    /\ \A c \in DOMAIN channels : channels[c].carried <= 1
    /\ pc \in {"swap", "check", "fidelity"} =>
          /\ \A c \in DOMAIN channels :
                IF ClientToSwitch(c)
                THEN channels[c].carried = 0 /\ channels[c].outcome = "none"
                ELSE channels[c].carried = 1 /\ Resolved(c)
          /\ script = "chain" =>
                Count(DOMAIN channels) = (IF num_repeaters > 0 THEN num_repeaters + 1 ELSE 1)
          /\ script = "switch" =>
                Count({c \in DOMAIN channels : ~ClientToSwitch(c)}) =
                    (IF num_clients > 0 THEN num_clients ELSE 0)

C6_Witness ==
    /\ script = "switch"
    /\ num_clients = 3
    /\ pc = "swap"
    /\ channels["chan_s2c2"].carried = 1
    /\ channels["chan_c2" \o "2s"].carried = 0

\* C7: in the two-hop and chain scripts the phases of a shot are ordered
\* generate, transmit, deliver, swap, fidelity: nothing is delivered while
\* pairs are generated, no swap gate and no fidelity evaluation happens while
\* a transmission is unresolved, and the fidelity is evaluated after all swaps.
C7_PhasesInCausalOrder ==
    script \in {"twohop", "chain"} =>
        /\ pc \in {"gen_alice", "gen_rep", "start1", "start2"} =>
              /\ \A c \in DOMAIN channels : channels[c].outcome = "none"
              /\ swapped = {} /\ result = "none"
        /\ pc = "sim_run" => swapped = {} /\ result = "none"
        /\ (pc \in {"swap", "fidelity"} \/ swapped # {} \/ result # "none") =>
              /\ queue = {}
              /\ \A c \in DOMAIN channels : Resolved(c)
        /\ (script = "chain" /\ result # "none") => i >= num_repeaters
        /\ (script = "twohop" /\ result = "fidelity") => swapped = {"Middle"}

C7_Witness ==
    /\ script = "chain"
    /\ num_repeaters = 2
    /\ pc = "swap"
    /\ i = 1
    /\ swapped = {"R0"}

\* the chain's link into Bob
LastLink == IF num_repeaters > 0 THEN "chan_r" \o ToString(num_repeaters - 1) \o "_bob"
            ELSE "chan_alice_bob"

\* C8: shots are isolated: a shot starts with an empty event queue, its
\* channels are built in it, every event in flight and every qubit in the
\* ledger the shot reads belongs to it, and its outcome is decided by its own
\* loss outcomes (sweep: both channels delivered; chain: the shot's own link
\* into Bob delivered).
C8_ShotsIsolated ==
    /\ pc \in {"loop", "sweep_loop", "build", "bind", "done"} => queue = {}
    /\ \A e \in queue : e.qubit.trial = trial /\ channels[e.chan].born = trial
    /\ pc \notin {"build", "bind"} =>
          \A k \in DOMAIN received : received[k] # None => received[k].trial = trial
    /\ pc # "build" => \A c \in DOMAIN channels : channels[c].born = trial
    /\ (script = "sweep" /\ result # "none") =>
          (result = "success" <=> (Delivered("chan_A") /\ Delivered("chan_B")))
    /\ (script = "chain" /\ result # "none") =>
          (result = "fidelity" <=> Delivered(LastLink))

C8_Witness ==
    /\ script = "chain"
    /\ trial = 2
    /\ pc = "swap"
    /\ shot_log = <<{}>>
    /\ Get(received, "Bob_qin") = Qubit(2, 1)

\* C9: a configuration with a domain error (shots <= 0, negative repeater or
\* client count) is rejected before any shot executes and the run does not
\* complete.
ValidConfig == shots >= 1 /\ num_repeaters >= 0 /\ num_clients >= 0

C9_DomainErrorRejected ==
    ~ValidConfig => (trial = 0 /\ pc # "done")

\* C10: in the two-hop script every recorded fidelity is the product of the
\* two link fidelities, 1.0.
C10_TwoHopFidelityIsOne ==
    script = "twohop" => \A j \in DOMAIN success_fidelities : success_fidelities[j] = 100


\* C11: running the same configuration twice gives identical aggregated
\* results: when the second execution of a script has finished, its per-shot
\* delivered/lost outcomes, its success count and its list of fidelities are
\* those of the first execution.
C11_SameConfigurationSameResults ==
    (run = 2 /\ pc = "done") => Aggregates = first_run

\* number of transmissions the channels in S accepted
RECURSIVE CarriedBy(_)
CarriedBy(S) ==
    IF S = {} THEN 0
    ELSE LET c == CHOOSE x \in S : TRUE
         IN  channels[c].carried + CarriedBy(S \ {c})

\* channel c joins exactly one port of a node to exactly one port of a node
Wired(c) ==
    LET s == <<c, "send">>
        r == <<c, "recv">>
    IN  /\ s \in DOMAIN conn
        /\ r \in DOMAIN conn
        /\ Cardinality({p \in DOMAIN conn : conn[p] = s}) = 1
        /\ Cardinality({p \in DOMAIN conn : conn[p] = r}) = 1
        /\ conn[s] \in ports
        /\ conn[r] \in ports
        /\ conn[s][1] \notin DOMAIN channels
        /\ conn[r][1] \notin DOMAIN channels
        /\ conn[s] # conn[r]

\* C12: in the chain and the switch script, for non-negative num_repeaters
\* and num_clients, building the topology never connects a port twice (no
\* construction error), a port is bound to at most one peer, every
\* tx_output of the shot went into a channel (each Bell pair created so far
\* put one qubit on a connected port), and every channel that carried a qubit
\* joins exactly one output port to exactly one input port.
C12_PortsBoundOnce ==
    (script \in {"chain", "switch"} /\ num_repeaters >= 0 /\ num_clients >= 0) =>
        /\ pc # "error"
        /\ \A p \in DOMAIN conn : conn[p] \in DOMAIN conn /\ conn[conn[p]] = p
        /\ pc # "build" => CarriedBy(DOMAIN channels) = qstate.n \div 2
        /\ \A c \in DOMAIN channels : channels[c].carried > 0 => Wired(c)

\* a chain of two repeaters whose three links each took their qubit
C12_Witness ==
    /\ script = "chain"
    /\ num_repeaters = 2
    /\ pc = "sim_run"
    /\ qstate.n = 6
    /\ \A c \in DOMAIN channels : channels[c].carried = 1 /\ Wired(c)

\* the ledger keys under which qubit q is recorded
HeldUnder(q) == {k \in DOMAIN received : received[k] = q}

\* the ledger key written by the handler at the far end of channel c
DestinationKey(c) == handlers[conn[<<c, "recv">>]].key

\* C13: a qubit is recorded under at most one key of the delivery ledger; a
\* qubit still in flight is recorded nowhere; a qubit a channel has lost is
\* recorded nowhere; and a transmitted qubit that is recorded is recorded
\* under the key of its channel's destination, the channel having delivered it.
C13_QubitHeldOnce ==
    /\ \A k \in DOMAIN received : received[k] # None => HeldUnder(received[k]) = {k}
    /\ \A e \in queue : HeldUnder(e.qubit) = {}
    /\ \A c \in DOMAIN channels :
          channels[c].item # None =>
              /\ channels[c].outcome = "lost" => HeldUnder(channels[c].item) = {}
              /\ HeldUnder(channels[c].item) # {} =>
                    /\ channels[c].outcome = "delivered"
                    /\ HeldUnder(channels[c].item) = {DestinationKey(c)}

\* the switch with three clients in the middle of a run: client 0's qubit
\* has arrived and is in the ledger, client 1's was lost, client 2's is in flight
C13_Witness ==
    /\ script = "switch"
    /\ num_clients = 3
    /\ pc = "sim_run"
    /\ channels["chan_s2c0"].outcome = "delivered"
    /\ received["C0_qin"] = channels["chan_s2c0"].item
    /\ channels["chan_s2c1"].outcome = "lost"
    /\ "C1_qin" \notin DOMAIN received
    /\ queue = {[chan |-> "chan_s2c2", qubit |-> channels["chan_s2c2"].item]}

\* shots whose two qubits both arrived, among shots lo..hi of the log
Successes(lo, hi) == Cardinality({k \in lo..hi : k \in DOMAIN shot_log /\ shot_log[k] = {}})

\* configuration points of a run: one per swept distance, one otherwise
Points == IF script = "sweep" THEN NumPoints ELSE 1

\* the run is over, it executed `shots` shots per configuration point, each
\* of them ended, and the sweep has one entry per distance in the order of
\* the distances: entry j counts the successes of the j-th block of shots
RunFinished ==
    /\ pc = "done"
    /\ queue = {}
    /\ trial = shots * Points
    /\ Len(shot_log) = shots * Points
    /\ result \in {"fidelity", "lost", "success"}
    /\ \A c \in DOMAIN channels : channels[c].carried <= 1
    /\ script = "sweep" =>
          /\ Len(success_probs) = NumPoints
          /\ \A j \in 1..NumPoints :
                success_probs[j] = Frac(Successes((j - 1) * shots + 1, j * shots), shots)

\* a step of the event run resolves one pending transmission for good: the
\* event leaves the queue, and a channel that has delivered or lost its
\* qubit is not used again in the shot; a shot records its result only when
\* nothing is pending
ShotStepsFinal ==
    /\ (pc = "sim_run" /\ pc' = "sim_run") =>
          /\ queue' \subseteq queue
          /\ queue' # queue
    /\ \A c \in DOMAIN channels :
          (Resolved(c) /\ c \in DOMAIN channels' /\ channels'[c].born = channels[c].born)
              => channels'[c] = channels[c]
    /\ (result' # result /\ result' # "none") =>
          /\ queue = {}
          /\ \A c \in DOMAIN channels : channels[c].carried > 0 => Resolved(c)

\* C14: with a valid configuration every run comes to its end whatever the
\* channels lose: every shot's event run resolves each transmission once,
\* without sending a lost qubit again, the shot records its result after
\* that, the run executes exactly `shots` shots per configuration point and
\* stops, and the sweep has one success probability per distance, in order.
C14_RunTerminates ==
    /\ ValidConfig ~> RunFinished
    /\ [][ShotStepsFinal]_vars

\* a finished sweep of two shots per distance in which a shot lost a qubit
C14_Witness ==
    /\ script = "sweep"
    /\ shots = 2
    /\ RunFinished
    /\ success_probs = <<Frac(2, 2), Frac(1, 2)>>
    /\ shot_log[4] # {}

\* client c exists and the qubit the switch sent it in finished shot j arrived
ClientGotQubit(j, c) == c < num_clients /\ ("chan_s2c" \o ToString(c)) \notin shot_log[j]

\* C15: in the switch script, after n finished shots entanglement_rates has
\* n entries, each 0 or 1; entry j is 1 exactly when the qubits of client 0
\* and of client 1 both arrived in shot j, whatever happened to the qubits
\* of the other clients; the entries that are 1 are as many as the recorded
\* fidelities; and with fewer than two clients every entry is 0.
C15_RatesRecordFirstTwoClients ==
    script = "switch" =>
        /\ Len(entanglement_rates) = shot
        /\ Len(shot_log) = shot
        /\ \A j \in 1..Len(entanglement_rates) :
              /\ entanglement_rates[j] \in {0, 1}
              /\ entanglement_rates[j] = 1 <=> (ClientGotQubit(j, 0) /\ ClientGotQubit(j, 1))
              /\ num_clients < 2 => entanglement_rates[j] = 0
        /\ SeqSum(entanglement_rates) = Len(success_fidelities)

\* three clients, two finished shots: the first succeeded although client
\* 2's qubit was lost, the second failed because client 1's was lost
\* although client 2's arrived
C15_Witness ==
    /\ script = "switch"
    /\ num_clients = 3
    /\ entanglement_rates = <<1, 0>>
    /\ shot_log = <<{"chan_s2c2"}, {"chan_s2c1"}>>
    /\ Len(success_fidelities) = 1

=============================================================================
